---- MODULE Spec2Model ----
(***************************************************************************)
(* res_json.c: JSONELEMENT(), jsonadd, jsonset and jsondelete, the         *)
(* dialplan operations that navigate a JSON document held as text in a     *)
(* channel variable along a slash-delimited path.                          *)
(*                                                                         *)
(* C strings that the code scans character by character (paths, path       *)
(* pieces, object keys, type tags, names) are tuples of one-character      *)
(* strings.  A text that the code only hands to the JSON library or copies *)
(* (the document text, the value argument, a string node's contents, the   *)
(* function result buffer) is a record [layout, val]:                      *)
(*    layout "NULL"     the NULL pointer (an unset variable, an absent     *)
(*                      argument)                                          *)
(*    layout "raw"      the characters val.chars, not a JSON document      *)
(*    layout "compact"  the JSON document val as ast_json_dump_string_-    *)
(*                      format(val, 0) writes it                           *)
(*    layout "pretty"   the JSON document val written with other white     *)
(*                      space (as the dialplan or JSONPRETTY may store it) *)
(*    layout "printf"   the number val.n printed with the format val.fmt   *)
(* so that parsing a text and dumping it again yields the same text only   *)
(* when the text already was the compact dump.                             *)
(***************************************************************************)
EXTENDS Integers, Sequences, FiniteSets, TLC

\* ---------------------------------------------------------------- bounds
\* The largest document jsonadd builds, in nodes.
MaxNodes == 2
\* The longest path the dialplan passes, in pieces.
MaxPieces == 2

\* ---------------------------------------------------- result codes (C)
ASTJSON_OK == 0
ASTJSON_UNDECIDED == 1
ASTJSON_ARG_NEEDED == 2
ASTJSON_PARSE_ERROR == 3
ASTJSON_NOTFOUND == 4
ASTJSON_INVALID_TYPE == 5
ASTJSON_ADD_FAILED == 6
ASTJSON_SET_FAILED == 7
ASTJSON_DELETE_FAILED == 8

\* ------------------------------------------------------------- C strings
\* The NULL char pointer; no tuple of characters equals it.
NULL == <<"NULL">>

ast_strlen_zero(s) == s = NULL \/ s = <<>>

ToLower(c) ==
    CASE c = "B" -> "b" [] c = "O" -> "o" [] c = "L" -> "l"
      [] c = "N" -> "n" [] c = "F" -> "f" [] c = "A" -> "a"
      [] c = "S" -> "s" [] c = "E" -> "e" [] c = "X" -> "x"
      [] OTHER -> c

strcasecmp_eq(s, w) ==
    /\ Len(s) = Len(w)
    /\ \A i \in 1..Len(s) : ToLower(s[i]) = ToLower(w[i])

IsDigit(c) == c \in {"0", "1", "2", "3", "4", "5", "6", "7", "8", "9"}

DigitVal(c) ==
    CASE c = "0" -> 0 [] c = "1" -> 1 [] c = "2" -> 2 [] c = "3" -> 3
      [] c = "4" -> 4 [] c = "5" -> 5 [] c = "6" -> 6 [] c = "7" -> 7
      [] c = "8" -> 8 [] c = "9" -> 9

\* The leading run of at most w digits of s, as a number; n counts them.
RECURSIVE ScanDigits(_, _, _, _)
ScanDigits(s, w, acc, n) ==
    IF w = 0 \/ s = <<>> \/ ~IsDigit(Head(s))
    THEN [val |-> acc, n |-> n]
    ELSE ScanDigits(Tail(s), w - 1, acc * 10 + DigitVal(Head(s)), n + 1)

RECURSIVE SkipSpace(_)
SkipSpace(s) == IF s # <<>> /\ Head(s) = " " THEN SkipSpace(Tail(s)) ELSE s

\* sscanf(piece, "%3d", &ixarray): white space is skipped, then a field of at
\* most three characters is read: an optional sign and decimal digits.  ok is
\* "sscanf(...) == 1"; whatever follows the field is left unread.
ScanWidth == 3
sscanf_3d(piece) ==
    LET s == SkipSpace(piece)
        signed == s # <<>> /\ Head(s) \in {"-", "+"}
        d == IF signed THEN ScanDigits(Tail(s), ScanWidth - 1, 0, 0)
                       ELSE ScanDigits(s, ScanWidth, 0, 0)
    IN [ok |-> d.n > 0,
        val |-> IF signed /\ Head(s) = "-" THEN 0 - d.val ELSE d.val]

\* atoi(s): the leading optionally signed integer of s, 0 when there is none.
atoi(s) ==
    LET t == SkipSpace(s)
        signed == t # <<>> /\ Head(t) \in {"-", "+"}
        d == ScanDigits(IF signed THEN Tail(t) ELSE t, Len(t), 0, 0)
    IN IF signed /\ Head(t) = "-" THEN 0 - d.val ELSE d.val

\* The pieces strsep(&thispath, "/") returns one after the other: s cut at
\* every '/'; an empty s is one empty piece.
RECURSIVE strsep_all(_, _)
strsep_all(s, piece) ==
    IF s = <<>> THEN <<piece>>
    ELSE IF Head(s) = "/" THEN <<piece>> \o strsep_all(Tail(s), <<>>)
    ELSE strsep_all(Tail(s), Append(piece, Head(s)))

\* thispath = ast_strdupa(args.path + (args.path[0] == '/' ? 1 : 0));
\* if (thispath[strlen(thispath) - 1] == '/') thispath[strlen(thispath) - 1] = 0;
\* On an empty thispath the second line reads the byte before the alloca'd
\* copy; whatever that byte is, thispath itself stays empty.
strip_slashes(path) ==
    LET p == IF path # <<>> /\ Head(path) = "/" THEN Tail(path) ELSE path
    IN IF p # <<>> /\ p[Len(p)] = "/" THEN SubSeq(p, 1, Len(p) - 1) ELSE p

\* ----------------------------------------------------------------- texts
NullText == [layout |-> "NULL", val |-> [type |-> "none"]]
Raw(chars) == [layout |-> "raw", val |-> [type |-> "chars", chars |-> chars]]
Pretty(json) == [layout |-> "pretty", val |-> json]
Printf(fmt, n) == [layout |-> "printf", val |-> [type |-> "number", fmt |-> fmt, n |-> n]]

IsJsonText(t) == t.layout \in {"compact", "pretty"}
strlen_zero(t) == t.layout = "raw" /\ t.val.chars = <<>>

\* The characters of a text, for strcasecmp and atoi/atof: those of a JSON
\* text start with its opening bracket.
Chars(t) ==
    IF t.layout = "raw" THEN t.val.chars
    ELSE IF t.val.type = "array" THEN <<"[", "]">> ELSE <<"{", "}">>

\* -------------------------------------------------------------- JSON values
NULLNODE == [type |-> "NULLPTR"]
ast_json_true == [type |-> "true"]
ast_json_false == [type |-> "false"]
ast_json_null == [type |-> "null"]
ast_json_integer_create(n) == [type |-> "integer", int |-> n]
ast_json_real_create(tenths) == [type |-> "real", tenths |-> tenths]
ast_json_string_create(t) ==
    IF t = NullText THEN NULLNODE ELSE [type |-> "string", str |-> t]
ast_json_array_create == [type |-> "array", elems |-> <<>>]
ast_json_object_create == [type |-> "object", keys |-> <<>>, vals |-> <<>>]
Arr(elems) == [type |-> "array", elems |-> elems]
Obj(keys, vals) == [type |-> "object", keys |-> keys, vals |-> vals]

ast_json_typeof(node) == node.type

\* ast_json_load_string(text, NULL): the parsed document, which must be an
\* array or an object (json_loads without JSON_DECODE_ANY); NULL otherwise.
ast_json_load_string(t) == IF IsJsonText(t) THEN t.val ELSE NULLNODE

\* ast_json_dump_string_format(node, 0)
ast_json_dump_string_format(node) == [layout |-> "compact", val |-> node]

\* atof(s), in tenths: the leading optionally signed decimal number of the
\* text, 0 when there is none (digits after the first decimal are dropped).
atof(t) ==
    LET s == SkipSpace(Chars(t))
        signed == s # <<>> /\ Head(s) \in {"-", "+"}
        u == IF signed THEN Tail(s) ELSE s
        d == ScanDigits(u, Len(u), 0, 0)
        r == SubSeq(u, d.n + 1, Len(u))
        f == IF Len(r) >= 2 /\ r[1] = "." /\ IsDigit(r[2]) THEN DigitVal(r[2]) ELSE 0
        v == d.val * 10 + f
    IN IF signed /\ Head(s) = "-" THEN 0 - v ELSE v

\* The children of a container, in order.
Children(node) ==
    IF node.type = "array" THEN node.elems
    ELSE IF node.type = "object" THEN node.vals ELSE <<>>

KeyPos(node, key) ==
    IF \E i \in 1..Len(node.keys) : node.keys[i] = key
    THEN CHOOSE i \in 1..Len(node.keys) : node.keys[i] = key
    ELSE 0

\* Position (1-based, among the children) of the element ast_json_array_get
\* returns, 0 for NULL: the node must be an array and 0 <= index < size.
array_pos(node, index) ==
    IF node.type = "array" /\ index >= 0 /\ index < Len(node.elems)
    THEN index + 1 ELSE 0

\* Position of the member ast_json_object_get returns, 0 for NULL.
object_pos(node, key) ==
    IF node.type = "object" /\ key # NULL THEN KeyPos(node, key) ELSE 0

RemoveAt(seq, i) == SubSeq(seq, 1, i - 1) \o SubSeq(seq, i + 1, Len(seq))

\* ast_json_array_append: [ok, node]; fails on a non-array or a NULL value.
ast_json_array_append(node, value) ==
    IF node.type = "array" /\ value # NULLNODE
    THEN [ok |-> TRUE, node |-> Arr(Append(node.elems, value))]
    ELSE [ok |-> FALSE, node |-> node]

\* ast_json_array_set: replaces the element at index; fails out of range.
ast_json_array_set(node, index, value) ==
    IF array_pos(node, index) # 0 /\ value # NULLNODE
    THEN [ok |-> TRUE,
          node |-> Arr([node.elems EXCEPT ![index + 1] = value])]
    ELSE [ok |-> FALSE, node |-> node]

\* Variant: the element stays where it is and the removal reports success.
array_remove_nothing(node, index) == [ok |-> TRUE, node |-> node]

\* ast_json_array_remove: removes the element at index, the later elements
\* move down by one; fails out of range.
ast_json_array_remove(node, index) ==
    IF array_pos(node, index) # 0
    THEN [ok |-> TRUE, node |-> Arr(RemoveAt(node.elems, index + 1))]
    ELSE [ok |-> FALSE, node |-> node]

\* ast_json_object_set: insert or replace; a replaced member keeps its place,
\* a new one goes last; fails on a NULL key or value.
ast_json_object_set(node, key, value) ==
    IF node.type # "object" \/ key = NULL \/ value = NULLNODE
    THEN [ok |-> FALSE, node |-> node]
    ELSE IF KeyPos(node, key) # 0
    THEN [ok |-> TRUE,
          node |-> Obj(node.keys, [node.vals EXCEPT ![KeyPos(node, key)] = value])]
    ELSE [ok |-> TRUE,
          node |-> Obj(Append(node.keys, key), Append(node.vals, value))]

\* ast_json_object_del: removes the member; fails when the key is absent.
ast_json_object_del(node, key) ==
    IF object_pos(node, key) # 0
    THEN [ok |-> TRUE,
          node |-> Obj(RemoveAt(node.keys, KeyPos(node, key)),
                       RemoveAt(node.vals, KeyPos(node, key)))]
    ELSE [ok |-> FALSE, node |-> node]

\* A location is the sequence of child positions from the root to a node
\* (the pointer thisobject / nextobject of the walking loops).
RECURSIVE NodeAt(_, _)
NodeAt(node, loc) ==
    IF loc = <<>> THEN node ELSE NodeAt(Children(node)[Head(loc)], Tail(loc))

\* The document with the node at loc replaced (a mutation through a pointer).
RECURSIVE ReplaceAt(_, _, _)
ReplaceAt(node, loc, new) ==
    IF loc = <<>> THEN new
    ELSE LET sub == ReplaceAt(Children(node)[Head(loc)], Tail(loc), new)
         IN IF node.type = "array"
            THEN Arr([node.elems EXCEPT ![Head(loc)] = sub])
            ELSE Obj(node.keys, [node.vals EXCEPT ![Head(loc)] = sub])

RECURSIVE SumSeq(_)
SumSeq(s) == IF s = <<>> THEN 0 ELSE Head(s) + SumSeq(Tail(s))

RECURSIVE NodeCount(_)
NodeCount(node) ==
    1 + SumSeq([i \in 1..Len(Children(node)) |-> NodeCount(Children(node)[i])])

\* One step of every walking loop:
\*   if (sscanf(pathpiece, "%3d", &ixarray) == 1)
\*       nextobject = ast_json_array_get(thisobject, ixarray);
\*   else
\*       nextobject = ast_json_object_get(thisobject, pathpiece);
\* as the child position of nextobject in thisobject, 0 when it is NULL.
next_pos(thisobject, pathpiece) ==
    IF sscanf_3d(pathpiece).ok
    THEN array_pos(thisobject, sscanf_3d(pathpiece).val)
    ELSE object_pos(thisobject, pathpiece)

\* ------------------------------------------------------- the variable store
\* The dialplan variable that holds the document.
DocVar == <<"d", "o", "c">>

\* pbx_builtin_getvar_helper(chan, name), doc being the value of DocVar: no
\* other variable holds a document.
pbx_builtin_getvar_helper(doc, name) == IF name = DocVar THEN doc ELSE NullText

\* Entries of the log of pbx_builtin_setvar_helper calls of one invocation.
SetResult(code) == [var |-> "JSONRESULT", code |-> code]
SetType(chars) == [var |-> "JSONTYPE", type |-> chars]
SetDoc(name, text) == [var |-> "document", name |-> name, text |-> text]

\* json_set_operation_result(chan, result): one more write of JSONRESULT.
json_set_operation_result(log, result) == Append(log, SetResult(result))

\* Variant: the document is stored whatever the result code is.
store_always(l, ret, name, jsonresult) == Append(l, SetDoc(name, jsonresult))

\* if (ret == ASTJSON_OK) pbx_builtin_setvar_helper(chan, args.json, jsonresult);
store_if_ok(l, ret, name, jsonresult) ==
    IF ret = ASTJSON_OK THEN Append(l, SetDoc(name, jsonresult)) ELSE l

\* What a handler leaves behind: the value of DocVar, the writes to the
\* variable store in order, the function result buffer, and whether the
\* process died on the way (a NULL pointer handed to strlen, atof or atoi).
Outcome(doc, log, buffer) ==
    [doc |-> doc, log |-> log, buffer |-> buffer, crashed |-> FALSE]
Crash(doc, log) ==
    [doc |-> doc, log |-> log, buffer |-> NullText, crashed |-> TRUE]

\* The value DocVar has once the writes of a log are applied to it.
RECURSIVE ApplyLog(_, _)
ApplyLog(doc, log) ==
    IF log = <<>> THEN doc
    ELSE ApplyLog(IF Head(log).var = "document" /\ Head(log).name = DocVar
                  THEN Head(log).text ELSE doc,
                  Tail(log))

\* ------------------------------------------------------------ JSONELEMENT
\* The loop of jsonelement_exec: the location of the node the pieces lead
\* to from loc, or found = FALSE at the first piece that leads nowhere.
RECURSIVE element_walk(_, _, _)
element_walk(root, loc, pieces) ==
    IF pieces = <<>> THEN [found |-> TRUE, loc |-> loc]
    ELSE LET pos == next_pos(NodeAt(root, loc), Head(pieces))
         IN IF pos = 0 THEN [found |-> FALSE, loc |-> loc]
            ELSE element_walk(root, Append(loc, pos), Tail(pieces))

\* The switch of jsonelement_exec: the type tag and the buffer for a node.
element_type(node) ==
    CASE node.type \in {"false", "true"} -> <<"b", "o", "o", "l">>
      [] node.type = "null" -> <<"n", "u", "l", "l">>
      [] node.type \in {"real", "integer"} -> <<"n", "u", "m", "b", "e", "r">>
      [] node.type = "string" -> <<"s", "t", "r", "i", "n", "g">>
      [] node.type = "array" -> <<"a", "r", "r", "a", "y">>
      [] node.type = "object" -> <<"n", "o", "d", "e">>

element_value(node) ==
    CASE node.type = "false" -> Raw(<<"0">>)
      [] node.type = "true" -> Raw(<<"1">>)
      [] node.type = "null" -> Raw(<<>>)
      [] node.type = "real" -> Printf("%f", node.tenths)
      [] node.type = "integer" -> Printf("%d", node.int)
      [] node.type = "string" -> node.str
      [] node.type \in {"array", "object"} -> ast_json_dump_string_format(node)

jsonelement_exec(doc, args) ==
    LET log0 == json_set_operation_result(<<>>, ASTJSON_UNDECIDED)
        root == ast_json_load_string(pbx_builtin_getvar_helper(doc, args.json))
        w == element_walk(root, <<>>, strsep_all(strip_slashes(args.path), <<>>))
        node == NodeAt(root, w.loc)
    IN IF ast_strlen_zero(args.json)
       THEN Outcome(doc, json_set_operation_result(log0, ASTJSON_ARG_NEEDED), Raw(<<>>))
       ELSE IF ast_strlen_zero(args.path)
       THEN Outcome(doc, json_set_operation_result(log0, ASTJSON_OK), Raw(args.json))
       ELSE IF root = NULLNODE
       THEN Outcome(doc, json_set_operation_result(log0, ASTJSON_PARSE_ERROR), Raw(<<>>))
       ELSE IF ~w.found
       THEN Outcome(doc, json_set_operation_result(log0, ASTJSON_NOTFOUND), Raw(<<>>))
       ELSE Outcome(doc,
                    json_set_operation_result(
                        Append(log0, SetType(element_type(node))), ASTJSON_OK),
                    element_value(node))

\* -------------------------------------------------------------- jsondelete
\* The while loop of jsondelete_exec.  The loop tests the outer pathpiece,
\* the first piece of the path, which the body never changes: the strsep in
\* the body assigns a second variable of the same name, declared in the body.
\* rest holds the pieces still in thispath; an empty rest is thispath == NULL.
\* The switch has no break out of the loop, so the body runs again after a
\* removal, until the first piece leads nowhere from thisobject.
RECURSIVE delete_walk(_, _, _, _, _)
delete_walk(root, loc, pathpiece, rest, ret) ==
    LET thisobject == NodeAt(root, loc)
        ixarray == sscanf_3d(pathpiece).val
        pos == next_pos(thisobject, pathpiece)
    IN IF pos = 0 THEN [root |-> root, ret |-> ret]
       ELSE IF rest # <<>>
       THEN delete_walk(root, Append(loc, pos), pathpiece, Tail(rest), ret)
       ELSE CASE ast_json_typeof(thisobject) = "array" ->
                  LET r == ast_json_array_remove(thisobject, ixarray)
                  IN delete_walk(ReplaceAt(root, loc, r.node), loc, pathpiece, rest,
                                 IF r.ok THEN ASTJSON_OK ELSE ret)
              [] ast_json_typeof(thisobject) = "object" ->
                  LET r == ast_json_object_del(thisobject, pathpiece)
                  IN delete_walk(ReplaceAt(root, loc, r.node), loc, pathpiece, rest,
                                 IF r.ok THEN ASTJSON_OK ELSE ret)
              [] OTHER ->
                  delete_walk(root, loc, pathpiece, rest, ASTJSON_DELETE_FAILED)

\* Variant: only an absent path counts as empty, if (!args.path).
delete_path_absent(path) == path = NULL

\* if (ast_strlen_zero(args.path)): "path is empty, will not delete the whole doc"
delete_path_empty(path) == ast_strlen_zero(path)

jsondelete_exec(doc, args) ==
    LET log0 == json_set_operation_result(<<>>, ASTJSON_UNDECIDED)
        source == pbx_builtin_getvar_helper(doc, args.json)
        root == ast_json_load_string(source)
        pieces == strsep_all(strip_slashes(args.path), <<>>)
        w == delete_walk(root, <<>>, Head(pieces), Tail(pieces), ASTJSON_NOTFOUND)
        jsonresult == ast_json_dump_string_format(w.root)
        log1 == store_if_ok(log0, w.ret, args.json, jsonresult)
    IN IF ast_strlen_zero(args.json)
       THEN Outcome(doc, json_set_operation_result(log0, ASTJSON_ARG_NEEDED), NullText)
       ELSE IF delete_path_empty(args.path)
       THEN Outcome(doc, json_set_operation_result(log0, ASTJSON_OK), NullText)
       ELSE IF source = NullText
       THEN Crash(doc, log0)
       ELSE IF strlen_zero(source)
       THEN Outcome(doc, json_set_operation_result(log0, ASTJSON_NOTFOUND), NullText)
       ELSE IF root = NULLNODE
       THEN Outcome(doc, json_set_operation_result(log0, ASTJSON_PARSE_ERROR), NullText)
       ELSE Outcome(ApplyLog(doc, log1),
                    json_set_operation_result(log1, w.ret), NullText)

\* ----------------------------------------------------------------- jsonadd
\* The boolean rule of jsonadd and jsonset: false for an absent or empty
\* value and for 0, no, n, false, f in any case; true for anything else.
value_is_false(value) ==
    \/ value = NullText
    \/ strlen_zero(value)
    \/ strcasecmp_eq(Chars(value), <<"0">>)
    \/ strcasecmp_eq(Chars(value), <<"n", "o">>)
    \/ strcasecmp_eq(Chars(value), <<"n">>)
    \/ strcasecmp_eq(Chars(value), <<"f", "a", "l", "s", "e">>)
    \/ strcasecmp_eq(Chars(value), <<"f">>)

\* The type tags jsonadd_exec compares args.type with.
add_types ==
    {<<"b", "o", "o", "l">>, <<"n", "u", "l", "l">>,
     <<"n", "u", "m", "b", "e", "r">>, <<"s", "t", "r", "i", "n", "g">>,
     <<"a", "r", "r", "a", "y">>, <<"n", "o", "d", "e">>}

add_type_known(type) == \E t \in add_types : strcasecmp_eq(type, t)

\* "create the object to add", for a known type tag and a value atof accepts.
add_newobject(type, value) ==
    CASE strcasecmp_eq(type, <<"b", "o", "o", "l">>) ->
             IF value_is_false(value) THEN ast_json_false ELSE ast_json_true
      [] strcasecmp_eq(type, <<"n", "u", "l", "l">>) -> ast_json_null
      [] strcasecmp_eq(type, <<"n", "u", "m", "b", "e", "r">>) ->
             ast_json_real_create(atof(value))
      [] strcasecmp_eq(type, <<"s", "t", "r", "i", "n", "g">>) ->
             ast_json_string_create(value)
      [] strcasecmp_eq(type, <<"a", "r", "r", "a", "y">>) -> ast_json_array_create
      [] strcasecmp_eq(type, <<"n", "o", "d", "e">>) -> ast_json_object_create

\* The switch of jsonadd_exec on the node the path ends at: append to an
\* array, set the member args.name of an object, fail on anything else.
add_into(node, name, newobject) ==
    CASE ast_json_typeof(node) = "array" -> ast_json_array_append(node, newobject)
      [] ast_json_typeof(node) = "object" -> ast_json_object_set(node, name, newobject)
      [] OTHER -> [ok |-> FALSE, node |-> node]

jsonadd_exec(doc, args) ==
    LET log0 == json_set_operation_result(<<>>, ASTJSON_UNDECIDED)
        newobject == add_newobject(args.type, args.value)
        jsondoc == pbx_builtin_getvar_helper(doc, args.json)
        fresh == jsondoc = NullText \/ strlen_zero(jsondoc)
        root == IF fresh
                THEN (IF ast_strlen_zero(args.name) THEN ast_json_array_create
                                                    ELSE ast_json_object_create)
                ELSE ast_json_load_string(jsondoc)
        thispath == IF fresh THEN <<>> ELSE strip_slashes(args.path)
        w == IF thispath = <<>> THEN [found |-> TRUE, loc |-> <<>>]
             ELSE element_walk(root, <<>>, strsep_all(thispath, <<>>))
        r == add_into(NodeAt(root, w.loc), args.name, newobject)
        ret == IF ~w.found THEN ASTJSON_NOTFOUND
               ELSE IF r.ok THEN ASTJSON_OK ELSE ASTJSON_ADD_FAILED
        jsonresult == ast_json_dump_string_format(
                          IF w.found THEN ReplaceAt(root, w.loc, r.node) ELSE root)
        log1 == store_if_ok(log0, ret, args.json, jsonresult)
    IN IF ast_strlen_zero(args.json)
       THEN Outcome(doc, json_set_operation_result(log0, ASTJSON_ARG_NEEDED), NullText)
       ELSE IF ast_strlen_zero(args.type)
       THEN Outcome(doc, json_set_operation_result(log0, ASTJSON_ARG_NEEDED), NullText)
       ELSE IF ~add_type_known(args.type)
       THEN Outcome(doc, json_set_operation_result(log0, ASTJSON_ARG_NEEDED), NullText)
       ELSE IF strcasecmp_eq(args.type, <<"n", "u", "m", "b", "e", "r">>)
               /\ args.value = NullText
       THEN Crash(doc, log0)
       ELSE IF ~fresh /\ root = NULLNODE
       THEN Outcome(doc, json_set_operation_result(log0, ASTJSON_PARSE_ERROR), NullText)
       ELSE Outcome(ApplyLog(doc, log1),
                    json_set_operation_result(log1, ret), NullText)

\* ----------------------------------------------------------------- jsonset
\* Variant: an array node is replaced like an object node, by the parsed value.
set_newobject_array_too(node, value) ==
    CASE ast_json_typeof(node) \in {"false", "true"} ->
             IF value_is_false(value) THEN ast_json_false ELSE ast_json_true
      [] ast_json_typeof(node) = "null" -> NULLNODE
      [] ast_json_typeof(node) = "real" -> ast_json_real_create(atof(value))
      [] ast_json_typeof(node) = "integer" -> ast_json_string_create(value)
      [] ast_json_typeof(node) = "string" -> ast_json_string_create(value)
      [] ast_json_typeof(node) \in {"array", "object"} -> ast_json_load_string(value)
      [] OTHER -> NULLNODE

\* The switch of jsonset_exec on the type of the node to change: the new
\* node, NULL when none is made.  case AST_JSON_INTEGER has no break: the
\* integer it creates is overwritten by the string of case AST_JSON_STRING.
set_newobject(node, value) ==
    CASE ast_json_typeof(node) \in {"false", "true"} ->
             IF value_is_false(value) THEN ast_json_false ELSE ast_json_true
      [] ast_json_typeof(node) = "null" -> NULLNODE
      [] ast_json_typeof(node) = "real" -> ast_json_real_create(atof(value))
      [] ast_json_typeof(node) = "integer" -> ast_json_string_create(value)
      [] ast_json_typeof(node) = "string" -> ast_json_string_create(value)
      [] ast_json_typeof(node) = "array" -> NULLNODE
      [] ast_json_typeof(node) = "object" -> ast_json_load_string(value)
      [] OTHER -> NULLNODE

\* atof(args.value) and atoi(args.value) read through the value pointer.
set_reads_value(node) == ast_json_typeof(node) \in {"real", "integer"}

\* "replace in the parent object with what we've just created here"
set_in_parent(thisobject, pathpiece, newobject) ==
    CASE ast_json_typeof(thisobject) = "array" ->
             ast_json_array_set(thisobject, sscanf_3d(pathpiece).val, newobject)
      [] ast_json_typeof(thisobject) = "object" ->
             ast_json_object_set(thisobject, pathpiece, newobject)
      [] OTHER -> [ok |-> FALSE, node |-> thisobject]

jsonset_exec(doc, args) ==
    LET log0 == json_set_operation_result(<<>>, ASTJSON_UNDECIDED)
        source == pbx_builtin_getvar_helper(doc, args.json)
        root == ast_json_load_string(source)
        thispath == strip_slashes(args.path)
        pieces == strsep_all(thispath, <<>>)
        w == element_walk(root, <<>>, pieces)
        parent == SubSeq(w.loc, 1, Len(w.loc) - 1)
        nextobject == NodeAt(root, w.loc)
        newobject == set_newobject(nextobject, args.value)
        r == set_in_parent(NodeAt(root, parent), pieces[Len(pieces)], newobject)
        ret == IF ~w.found THEN ASTJSON_NOTFOUND
               ELSE IF newobject = NULLNODE THEN ASTJSON_INVALID_TYPE
               ELSE IF r.ok THEN ASTJSON_OK ELSE ASTJSON_SET_FAILED
        jsonresult == ast_json_dump_string_format(
                          IF ret = ASTJSON_OK THEN ReplaceAt(root, parent, r.node)
                                              ELSE root)
        log1 == store_if_ok(log0, ret, args.json, jsonresult)
    IN IF ast_strlen_zero(args.json)
       THEN Outcome(doc, json_set_operation_result(log0, ASTJSON_ARG_NEEDED), NullText)
       ELSE IF source = NullText
       THEN Crash(doc, log0)
       ELSE IF strlen_zero(source)
       THEN Outcome(doc, json_set_operation_result(log0, ASTJSON_INVALID_TYPE), NullText)
       ELSE IF root = NULLNODE
       THEN Outcome(doc, json_set_operation_result(log0, ASTJSON_PARSE_ERROR), NullText)
       ELSE IF args.path = NULL
       THEN Crash(doc, log0)
       ELSE IF thispath = <<>>
       THEN Outcome(doc, json_set_operation_result(log0, ASTJSON_NOTFOUND), NullText)
       ELSE IF w.found /\ set_reads_value(nextobject) /\ args.value = NullText
       THEN Crash(doc, log0)
       ELSE Outcome(ApplyLog(doc, log1),
                    json_set_operation_result(log1, ret), NullText)

\* ------------------------------------------- JSONPRETTY and JSONCOMPRESS
\* Neither function writes ASTJSON_UNDECIDED first; both empty the buffer.
jsonpretty_exec(doc, args) ==
    LET root == ast_json_load_string(pbx_builtin_getvar_helper(doc, args.json))
    IN IF ast_strlen_zero(args.json)
       THEN Outcome(doc, json_set_operation_result(<<>>, ASTJSON_ARG_NEEDED), Raw(<<>>))
       ELSE IF root = NULLNODE
       THEN Outcome(doc, json_set_operation_result(<<>>, ASTJSON_PARSE_ERROR), Raw(<<>>))
       ELSE Outcome(doc, json_set_operation_result(<<>>, ASTJSON_OK), Pretty(root))

jsoncompress_exec(doc, args) ==
    LET root == ast_json_load_string(pbx_builtin_getvar_helper(doc, args.json))
    IN IF ast_strlen_zero(args.json)
       THEN Outcome(doc, json_set_operation_result(<<>>, ASTJSON_ARG_NEEDED), Raw(<<>>))
       ELSE IF root = NULLNODE
       THEN Outcome(doc, json_set_operation_result(<<>>, ASTJSON_PARSE_ERROR), Raw(<<>>))
       ELSE Outcome(doc, json_set_operation_result(<<>>, ASTJSON_OK),
                    ast_json_dump_string_format(root))

\* ------------------------------------------------------------ jsonvariables
\* One more entry of the log: a dialplan variable named after a key.
SetVar(name, text) == [var |-> "variable", name |-> name, text |-> text]

\* The switch of jsonvariables_exec: the text a member's value is stored as.
variables_value(nvp) ==
    CASE nvp.type = "false" -> Raw(<<"0">>)
      [] nvp.type = "true" -> Raw(<<"1">>)
      [] nvp.type = "null" -> Raw(<<>>)
      [] nvp.type = "real" -> Printf("%f", nvp.tenths)
      [] nvp.type = "integer" -> Printf("%d", nvp.int)
      [] nvp.type = "string" -> nvp.str
      [] nvp.type = "array" -> Raw(<<"!", "a", "r", "r", "a", "y", "!">>)
      [] nvp.type = "object" -> ast_json_dump_string_format(nvp)

\* The while loop of jsonvariables_exec from member i on.  The iterator
\* ast_json_object_iter(doc) is NULL for an object without members and for
\* a document that is no object: the loop is skipped, "goto out".
RECURSIVE variables_walk(_, _, _)
variables_walk(root, i, l) ==
    IF ast_json_typeof(root) # "object" \/ i > Len(root.keys) THEN l
    ELSE variables_walk(root, i + 1,
                        Append(l, SetVar(root.keys[i], variables_value(root.vals[i]))))

\* No member of the documents followed is named like the document variable.
jsonvariables_exec(doc, args) ==
    LET log0 == json_set_operation_result(<<>>, ASTJSON_UNDECIDED)
        root == ast_json_load_string(pbx_builtin_getvar_helper(doc, args.json))
    IN IF ast_strlen_zero(args.json)
       THEN Outcome(doc, json_set_operation_result(log0, ASTJSON_ARG_NEEDED), NullText)
       ELSE IF root = NULLNODE
       THEN Outcome(doc, json_set_operation_result(log0, ASTJSON_PARSE_ERROR), NullText)
       ELSE Outcome(doc,
                    json_set_operation_result(variables_walk(root, 1, log0), ASTJSON_OK),
                    NullText)

\* ------------------------------------------------------------ the dialplan
VARIABLES
    doc,     \* the text of the channel variable DocVar, NullText while unset
    pc,      \* "idle" between applications, "returned" after one, "crashed"
    call,    \* the application last run and its arguments
    before,  \* doc when that application started
    log,     \* the writes to the variable store it made, in order
    buffer,  \* what it left in the function result buffer
    frame    \* the locals of jsondelete_exec while its loop is followed turn
             \* by turn, NoFrame otherwise

vars == <<doc, pc, call, before, log, buffer, frame>>

NoFrame == [turns |-> 0]

NoCall ==
    [op |-> "none", json |-> NULL, path |-> NULL, type |-> NULL,
     name |-> NULL, value |-> NullText]

\* Path pieces the dialplan uses: two keys and an index.
Segs == {<<"a">>, <<"b">>, <<"0">>}

RECURSIVE JoinPath(_)
JoinPath(pieces) ==
    IF pieces = <<>> THEN <<>> ELSE <<"/">> \o Head(pieces) \o JoinPath(Tail(pieces))

\* "/p1/.../pn" for every n up to MaxPieces, the one-piece paths also without
\* the leading slash and with a trailing one, the empty path and "/".
Paths ==
    {<<>>, <<"/">>}
      \cup UNION {{JoinPath(ps) : ps \in [1..n -> Segs]} : n \in 1..MaxPieces}
      \cup {s \o <<"/">> : s \in Segs}

EmptyObjectText == ast_json_dump_string_format(ast_json_object_create)
EmptyArrayText == ast_json_dump_string_format(ast_json_array_create)

\* Value arguments: absent, empty (false), a number (true), and JSON text.
Values == {NullText, Raw(<<>>), Raw(<<"7">>), EmptyObjectText, EmptyArrayText}

\* The name and value arguments of jsonadd: both left out, an empty name,
\* and a key.  An argument can be absent only if those after it are.
NamesValues ==
    {<<NULL, NullText>>, <<<<>>, Raw(<<"7">>)>>, <<<<"a">>, Raw(<<"7">>)>>}

\* Documents the dialplan stores itself (Set(doc=...)): nothing, text that
\* is no JSON, and JSON written with white space, holding integers, which
\* jsonadd never creates.
Seeds ==
    {Raw(<<>>), Raw(<<"x">>),
     Pretty(Arr(<<ast_json_integer_create(1), ast_json_integer_create(2)>>)),
     Pretty(Obj(<<<<"a">>>>,
                <<Obj(<<<<"a">>, <<"b">>>>,
                      <<ast_json_integer_create(1),
                        Arr(<<ast_json_integer_create(2)>>)>>)>>))}

Args(op, json, path, type, name, value) ==
    [op |-> op, json |-> json, path |-> path, type |-> type, name |-> name,
     value |-> value]

\* Every application is also run once without the name of a variable, and
\* jsonadd without a type and with a type it does not know.
GetArgs ==
    {Args("jsonelement", DocVar, p, NULL, NULL, NullText) : p \in Paths \cup {NULL}}
      \cup {Args("jsonelement", <<>>, <<"/", "a">>, NULL, NULL, NullText)}

DeleteArgs ==
    {Args("jsondelete", DocVar, p, NULL, NULL, NullText) : p \in Paths \cup {NULL}}
      \cup {Args("jsondelete", <<>>, <<"/", "a">>, NULL, NULL, NullText)}

SetArgs ==
    {Args("jsonset", DocVar, p, NULL, NULL, v) : p \in Paths, v \in Values}
      \cup {Args("jsonset", DocVar, NULL, NULL, NULL, NullText),
            Args("jsonset", <<>>, <<"/", "a">>, NULL, NULL, Raw(<<"7">>))}

AddArgs ==
    {Args("jsonadd", DocVar, p, t, nv[1], nv[2]) :
        p \in Paths, t \in add_types, nv \in NamesValues}
      \cup {Args("jsonadd", <<>>, <<"/", "a">>, <<"n", "u", "l", "l">>, NULL, NullText),
            Args("jsonadd", DocVar, <<>>, NULL, NULL, NullText),
            Args("jsonadd", DocVar, <<>>, <<"o", "b", "j", "e", "c", "t">>, NULL, NullText),
            Args("jsonadd", DocVar, <<>>, <<"x">>, NULL, NullText)}

\* The functions and the application that take only the name of a variable.
PrettyArgs ==
    {Args("jsonpretty", j, NULL, NULL, NULL, NullText) : j \in {DocVar, <<>>}}

CompressArgs ==
    {Args("jsoncompress", j, NULL, NULL, NULL, NullText) : j \in {DocVar, <<>>}}

VariablesArgs ==
    {Args("jsonvariables", j, NULL, NULL, NULL, NullText) : j \in {DocVar, <<>>}}

Init ==
    /\ doc = NullText
    /\ pc = "idle"
    /\ call = NoCall
    /\ before = NullText
    /\ log = <<>>
    /\ buffer = NullText
    /\ frame = NoFrame

\* An application has run: what it left, seen when it returns.
Ran(args, out) ==
    /\ pc' = IF out.crashed THEN "crashed" ELSE "returned"
    /\ call' = args
    /\ before' = doc
    /\ doc' = out.doc
    /\ log' = out.log
    /\ buffer' = out.buffer
    /\ frame' = NoFrame

\* Set(doc=text) in the dialplan.
HostSet ==
    /\ pc = "idle"
    /\ \E text \in Seeds : doc' = text
    /\ UNCHANGED <<pc, call, before, log, buffer, frame>>

Get ==
    /\ pc = "idle"
    /\ \E args \in GetArgs : Ran(args, jsonelement_exec(doc, args))

\* jsonadd is followed while the document it stores has at most MaxNodes nodes.
Add ==
    /\ pc = "idle"
    /\ \E args \in AddArgs :
           LET out == jsonadd_exec(doc, args)
           IN /\ out.doc # doc => NodeCount(ast_json_load_string(out.doc)) <= MaxNodes
              /\ Ran(args, out)

Set ==
    /\ pc = "idle"
    /\ \E args \in SetArgs : Ran(args, jsonset_exec(doc, args))

Delete ==
    /\ pc = "idle"
    /\ \E args \in DeleteArgs : Ran(args, jsondelete_exec(doc, args))

GetPretty ==
    /\ pc = "idle"
    /\ \E args \in PrettyArgs : Ran(args, jsonpretty_exec(doc, args))

GetCompress ==
    /\ pc = "idle"
    /\ \E args \in CompressArgs : Ran(args, jsoncompress_exec(doc, args))

Variables ==
    /\ pc = "idle"
    /\ \E args \in VariablesArgs : Ran(args, jsonvariables_exec(doc, args))

\* The dialplan goes on to its next step: the finished call's frame is gone.
DialplanNext ==
    /\ pc = "returned"
    /\ pc' = "idle"
    /\ call' = NoCall
    /\ before' = NullText
    /\ log' = <<>>
    /\ buffer' = NullText
    /\ frame' = NoFrame
    /\ UNCHANGED doc

Next ==
    \/ HostSet
    \/ Get
    \/ Add
    \/ Set
    \/ Delete
    \/ GetPretty
    \/ GetCompress
    \/ Variables
    \/ DialplanNext

Spec == Init /\ [][Next]_vars

\* ------------------------------------------- the dialplan, odd path pieces
\* A second dialplan: paths of one piece, the pieces being an index, a key,
\* digits followed by a letter, a signed number, and a number of more digits
\* than sscanf's field is wide; the documents an array and an object that
\* has the odd pieces among its keys.
PieceSegs ==
    {<<"0">>, <<"a">>, <<"0", "a">>, <<"-", "0">>, <<"0", "0", "0", "1">>}

PiecePaths == {JoinPath(<<p>>) : p \in PieceSegs}

PieceSeeds ==
    {Pretty(Arr(<<ast_json_integer_create(1), ast_json_integer_create(2)>>)),
     Pretty(Obj(<<<<"0", "a">>, <<"a">>>>,
                <<ast_json_integer_create(1), ast_json_integer_create(2)>>))}

PieceHostSet ==
    /\ pc = "idle"
    /\ \E text \in PieceSeeds : doc' = text
    /\ UNCHANGED <<pc, call, before, log, buffer, frame>>

PieceGet ==
    /\ pc = "idle"
    /\ \E p \in PiecePaths :
           LET args == Args("jsonelement", DocVar, p, NULL, NULL, NullText)
           IN Ran(args, jsonelement_exec(doc, args))

PieceAdd ==
    /\ pc = "idle"
    /\ \E p \in PiecePaths, t \in add_types :
           LET args == Args("jsonadd", DocVar, p, t, <<"a">>, Raw(<<"7">>))
               out == jsonadd_exec(doc, args)
           IN /\ out.doc # doc => NodeCount(ast_json_load_string(out.doc)) <= MaxNodes
              /\ Ran(args, out)

PieceSet ==
    /\ pc = "idle"
    /\ \E p \in PiecePaths :
           LET args == Args("jsonset", DocVar, p, NULL, NULL, Raw(<<"7">>))
           IN Ran(args, jsonset_exec(doc, args))

PieceDelete ==
    /\ pc = "idle"
    /\ \E p \in PiecePaths :
           LET args == Args("jsondelete", DocVar, p, NULL, NULL, NullText)
           IN Ran(args, jsondelete_exec(doc, args))

PieceNext ==
    \/ PieceHostSet
    \/ PieceGet
    \/ PieceAdd
    \/ PieceSet
    \/ PieceDelete
    \/ DialplanNext

SpecPieces == Init /\ [][PieceNext]_vars

\* --------------------------------------- jsondelete_exec, turn by turn
\* A third dialplan, in which the while loop of jsondelete_exec is followed
\* one turn at a time.  The frame holds the document in memory (root), where
\* thisobject points (loc), the pieces left in thispath (rest), ret, and
\* the number of times the loop body was entered (turns).
delete_returns_early(d, args) ==
    \/ ast_strlen_zero(args.json)
    \/ delete_path_empty(args.path)
    \/ pbx_builtin_getvar_helper(d, args.json) = NullText
    \/ strlen_zero(pbx_builtin_getvar_helper(d, args.json))
    \/ ast_json_load_string(pbx_builtin_getvar_helper(d, args.json)) = NULLNODE

\* The outer pathpiece: the first piece of the path, for the whole loop.
delete_pathpiece(args) == Head(strsep_all(strip_slashes(args.path), <<>>))

\* The body of the loop after a lookup that found nextobject at pos.
delete_turn(f, pathpiece, pos) ==
    LET thisobject == NodeAt(f.root, f.loc)
        ixarray == sscanf_3d(pathpiece).val
    IN IF f.rest # <<>>
       THEN [f EXCEPT !.loc = Append(f.loc, pos), !.rest = Tail(f.rest),
                      !.turns = f.turns + 1]
       ELSE CASE ast_json_typeof(thisobject) = "array" ->
                  LET r == ast_json_array_remove(thisobject, ixarray)
                  IN [f EXCEPT !.root = ReplaceAt(f.root, f.loc, r.node),
                               !.ret = IF r.ok THEN ASTJSON_OK ELSE f.ret,
                               !.turns = f.turns + 1]
              [] ast_json_typeof(thisobject) = "object" ->
                  LET r == ast_json_object_del(thisobject, pathpiece)
                  IN [f EXCEPT !.root = ReplaceAt(f.root, f.loc, r.node),
                               !.ret = IF r.ok THEN ASTJSON_OK ELSE f.ret,
                               !.turns = f.turns + 1]
              [] OTHER ->
                  [f EXCEPT !.ret = ASTJSON_DELETE_FAILED, !.turns = f.turns + 1]

\* The number of turns the loop is followed for before it is given up.
TurnCap(args, d) ==
    Len(strsep_all(strip_slashes(args.path), <<>>))
      + NodeCount(ast_json_load_string(d))

\* jsondelete_exec up to its loop, or to its return when it has none.
DeleteEnter ==
    /\ pc = "idle"
    /\ \E args \in DeleteArgs :
           IF delete_returns_early(doc, args)
           THEN Ran(args, jsondelete_exec(doc, args))
           ELSE /\ pc' = "deleting"
                /\ call' = args
                /\ before' = doc
                /\ log' = json_set_operation_result(<<>>, ASTJSON_UNDECIDED)
                /\ frame' = [root |-> ast_json_load_string(doc), loc |-> <<>>,
                             rest |-> Tail(strsep_all(strip_slashes(args.path), <<>>)),
                             ret |-> ASTJSON_NOTFOUND, turns |-> 0]
                /\ UNCHANGED <<doc, buffer>>

\* One turn of the loop in which the lookup finds nextobject.
DeleteTurn ==
    /\ pc = "deleting"
    /\ frame.turns <= TurnCap(call, before)
    /\ next_pos(NodeAt(frame.root, frame.loc), delete_pathpiece(call)) # 0
    /\ frame' = delete_turn(frame, delete_pathpiece(call),
                            next_pos(NodeAt(frame.root, frame.loc),
                                     delete_pathpiece(call)))
    /\ UNCHANGED <<doc, pc, call, before, log, buffer>>

\* The turn in which the lookup finds nothing, "if (!nextobject) break;",
\* and the rest of jsondelete_exec.
DeleteExit ==
    /\ pc = "deleting"
    /\ next_pos(NodeAt(frame.root, frame.loc), delete_pathpiece(call)) = 0
    /\ LET log1 == store_if_ok(log, frame.ret, call.json,
                               ast_json_dump_string_format(frame.root))
       IN /\ doc' = ApplyLog(doc, log1)
          /\ log' = json_set_operation_result(log1, frame.ret)
    /\ frame' = [frame EXCEPT !.turns = frame.turns + 1]
    /\ pc' = "returned"
    /\ UNCHANGED <<call, before, buffer>>

DeleteNext ==
    \/ HostSet
    \/ DeleteEnter
    \/ DeleteTurn
    \/ DeleteExit
    \/ DialplanNext

\* jsondelete_exec runs on the thread of its channel and is not preempted
\* for good: a turn of the loop that can be taken is taken.
SpecDelete ==
    /\ Init
    /\ [][DeleteNext]_vars
    /\ WF_vars(DeleteTurn)
    /\ WF_vars(DeleteExit)

\* ------------------------------------------------------------- properties
\* The path resolution the properties speak of: a piece made of decimal
\* digits only is an Index and is followed into an array, any other piece is
\* a Name and is followed into an object; anything else cannot be followed.
IsIndexPiece(piece) == piece # <<>> /\ \A i \in 1..Len(piece) : IsDigit(piece[i])

FollowPiece(node, piece) ==
    IF node.type = "array" /\ IsIndexPiece(piece)
    THEN (IF ScanDigits(piece, Len(piece), 0, 0).val < Len(node.elems)
          THEN ScanDigits(piece, Len(piece), 0, 0).val + 1 ELSE 0)
    ELSE IF node.type = "object" /\ ~IsIndexPiece(piece)
    THEN KeyPos(node, piece) ELSE 0

RECURSIVE Resolve(_, _, _)
Resolve(root, loc, pieces) ==
    IF pieces = <<>> THEN [found |-> TRUE, loc |-> loc]
    ELSE LET pos == FollowPiece(NodeAt(root, loc), Head(pieces))
         IN IF pos = 0 THEN [found |-> FALSE, loc |-> loc]
            ELSE Resolve(root, Append(loc, pos), Tail(pieces))

\* The pieces of the call's path, none for a path that is absent or empty
\* once a leading and a trailing slash are taken off.
PathPieces ==
    IF call.path = NULL \/ strip_slashes(call.path) = <<>> THEN <<>>
    ELSE strsep_all(strip_slashes(call.path), <<>>)

BeforeRoot == ast_json_load_string(before)
AfterRoot == ast_json_load_string(doc)
Target == Resolve(BeforeRoot, <<>>, PathPieces)
ParentLoc == SubSeq(Target.loc, 1, Len(Target.loc) - 1)
SlotPos == Target.loc[Len(Target.loc)]

\* The application op has run (to its return, or to the death of the process).
Finished(op) == pc # "idle" /\ call.op = op /\ ~ast_strlen_zero(call.json)

\* The last value written to JSONRESULT by the finished application.
JSONRESULT == log[Len(log)].code

StoredDocument == \E i \in 1..Len(log) : log[i].var = "document"

\* The JSON type of a node: true and false are bool, integer and real number.
JsonType(node) ==
    CASE node.type \in {"true", "false"} -> "bool"
      [] node.type \in {"integer", "real"} -> "number"
      [] OTHER -> node.type

\* The container with the child at position pos removed.
WithoutSlot(node, pos) ==
    IF node.type = "array" THEN Arr(RemoveAt(node.elems, pos))
    ELSE Obj(RemoveAt(node.keys, pos), RemoveAt(node.vals, pos))

\* C1: a jsonset that reports Ok on a path resolving to a bool, number,
\* string or object node leaves a node of the same JSON type at that path.
C1_SetKeepsType ==
    (Finished("jsonset") /\ JSONRESULT = ASTJSON_OK /\ PathPieces # <<>>
       /\ BeforeRoot # NULLNODE /\ Target.found
       /\ JsonType(NodeAt(BeforeRoot, Target.loc)) \in {"bool", "number", "string", "object"})
    => JsonType(NodeAt(AfterRoot, Target.loc)) = JsonType(NodeAt(BeforeRoot, Target.loc))

\* C2: a jsondelete that reports Ok on a path ending at an in-range index of
\* an array removes that one element and changes nothing else.
C2_DeleteRemovesOneIndex ==
    (Finished("jsondelete") /\ JSONRESULT = ASTJSON_OK /\ PathPieces # <<>>
       /\ BeforeRoot # NULLNODE /\ Target.found
       /\ NodeAt(BeforeRoot, ParentLoc).type = "array")
    => AfterRoot = ReplaceAt(BeforeRoot, ParentLoc,
                             WithoutSlot(NodeAt(BeforeRoot, ParentLoc), SlotPos))

\* C3: a jsondelete on a path of two or more pieces that can all be followed
\* reports Ok and removes exactly the slot the last piece addresses.
C3_DeleteMultiSegment ==
    (Finished("jsondelete") /\ Len(PathPieces) >= 2
       /\ BeforeRoot # NULLNODE /\ Target.found)
    => /\ pc = "returned"
       /\ JSONRESULT = ASTJSON_OK
       /\ AfterRoot = ReplaceAt(BeforeRoot, ParentLoc,
                                WithoutSlot(NodeAt(BeforeRoot, ParentLoc), SlotPos))

\* C4: a jsondelete on a non-empty path that cannot be followed to its end
\* reports NotFound and leaves the stored document as it was.
C4_DeleteUnresolved ==
    (Finished("jsondelete") /\ PathPieces # <<>>
       /\ BeforeRoot # NULLNODE /\ ~Target.found)
    => /\ pc = "returned"
       /\ JSONRESULT = ASTJSON_NOTFOUND
       /\ doc = before

\* C5: a jsonadd, jsonset or jsondelete that ends with a result other than Ok
\* has written nothing to the document variable: its text is as before.
C5_FailureLeavesDocument ==
    (pc # "idle" /\ call.op \in {"jsonadd", "jsonset", "jsondelete"}
       /\ JSONRESULT # ASTJSON_OK)
    => doc = before /\ ~StoredDocument

\* A jsonadd onto a scalar of a document stored with white space failed.
C5_Witness ==
    /\ pc = "returned"
    /\ call.op = "jsonadd"
    /\ JSONRESULT = ASTJSON_ADD_FAILED
    /\ before.layout = "pretty"
    /\ doc = before

\* C6: JSONELEMENT with an empty path on a variable holding a document returns
\* the text of that variable, with result Ok, and leaves the variable alone.
C6_GetEmptyPath ==
    (Finished("jsonelement") /\ ast_strlen_zero(call.path) /\ IsJsonText(before))
    => /\ pc = "returned"
       /\ JSONRESULT = ASTJSON_OK
       /\ buffer = before
       /\ doc = before

AddDestination == NodeAt(BeforeRoot, Target.loc)

\* C9: a jsonadd with a known type tag whose path ends at an array reports Ok
\* and stores the document with one element more at the end of that array,
\* the former elements and the rest of the document being as before.
C9_AddAppends ==
    (Finished("jsonadd") /\ add_type_known(call.type)
       /\ BeforeRoot # NULLNODE /\ Target.found /\ AddDestination.type = "array")
    => /\ pc = "returned"
       /\ JSONRESULT = ASTJSON_OK
       /\ AfterRoot # NULLNODE
       /\ NodeAt(AfterRoot, Target.loc).type = "array"
       /\ Len(NodeAt(AfterRoot, Target.loc).elems) = Len(AddDestination.elems) + 1
       /\ SubSeq(NodeAt(AfterRoot, Target.loc).elems, 1, Len(AddDestination.elems))
             = AddDestination.elems
       /\ AfterRoot = ReplaceAt(BeforeRoot, Target.loc, NodeAt(AfterRoot, Target.loc))

\* C10: a jsonadd with a known type tag on a variable that is unset or empty
\* reports Ok and stores a one-element array when no name was given, a
\* one-member object under the name when one was given, whatever the path.
C10_AddSynthesizesRoot ==
    (Finished("jsonadd") /\ add_type_known(call.type)
       /\ (before = NullText \/ strlen_zero(before)))
    => /\ pc = "returned"
       /\ JSONRESULT = ASTJSON_OK
       /\ AfterRoot # NULLNODE
       /\ IF ast_strlen_zero(call.name)
          THEN AfterRoot.type = "array" /\ Len(AfterRoot.elems) = 1
          ELSE AfterRoot.type = "object" /\ AfterRoot.keys = <<call.name>>

\* An application or function has run, whatever its arguments were.
Invoked == pc # "idle" /\ call.op # "none"

\* The text of the variable was not empty and was no JSON document.
Unparsable(t) == t # NullText /\ ~strlen_zero(t) /\ ast_json_load_string(t) = NULLNODE

\* C12: every operation given the name of a variable whose text is not empty
\* and is no JSON reports ParseError, whatever the path is, an empty one too.
C12_ParseErrorFirst ==
    (Invoked /\ ~ast_strlen_zero(call.json) /\ Unparsable(before))
    => /\ pc = "returned"
       /\ JSONRESULT = ASTJSON_PARSE_ERROR

\* The operations that cannot do without a document: all but jsonadd, and
\* JSONELEMENT and jsondelete only with a path that is not empty.
NeedsDocument ==
    \/ call.op \in {"jsonset", "jsonvariables", "jsonpretty", "jsoncompress"}
    \/ call.op \in {"jsonelement", "jsondelete"} /\ ~ast_strlen_zero(call.path)

\* C13: an operation that needs a document and is given the name of a
\* variable that is unset or empty reports ArgumentNeeded.
C13_NoDocumentArgNeeded ==
    (Invoked /\ ~ast_strlen_zero(call.json) /\ NeedsDocument
       /\ (before = NullText \/ strlen_zero(before)))
    => /\ pc = "returned"
       /\ JSONRESULT = ASTJSON_ARG_NEEDED

\* The type tags of Add as the specification lists them.
SpecTags ==
    {<<"b", "o", "o", "l">>, <<"n", "u", "l", "l">>,
     <<"n", "u", "m", "b", "e", "r">>, <<"s", "t", "r", "i", "n", "g">>,
     <<"a", "r", "r", "a", "y">>, <<"o", "b", "j", "e", "c", "t">>}

\* C14: jsonadd reports ArgumentNeeded for an absent or empty type tag,
\* InvalidType for a tag that is none of bool, null, number, string, array,
\* object, and neither of the two for any of these six.
C14_AddTypeTags ==
    Finished("jsonadd")
    => /\ ast_strlen_zero(call.type) => JSONRESULT = ASTJSON_ARG_NEEDED
       /\ (~ast_strlen_zero(call.type) /\ call.type \notin SpecTags)
             => JSONRESULT = ASTJSON_INVALID_TYPE
       /\ call.type \in SpecTags
             => JSONRESULT \notin {ASTJSON_ARG_NEEDED, ASTJSON_INVALID_TYPE}

\* C15: jsonvariables reports Ok only for a document that is an object; for
\* any other text of the variable it reports ParseError and sets no variable.
C15_ImportOnlyObjects ==
    Finished("jsonvariables")
    => IF BeforeRoot # NULLNODE /\ BeforeRoot.type = "object"
       THEN JSONRESULT = ASTJSON_OK
       ELSE /\ JSONRESULT = ASTJSON_PARSE_ERROR
            /\ \A i \in 1..Len(log) : log[i].var # "variable"

\* The result codes written by the finished invocation, Undecided left out.
FinalCodes ==
    SelectSeq(log, LAMBDA e : e.var = "JSONRESULT" /\ e.code # ASTJSON_UNDECIDED)

\* C16: every invocation returns, having written one result code that is
\* not Undecided, and that code is the last value JSONRESULT was given.
C16_OneFinalCode ==
    Invoked
    => /\ pc = "returned"
       /\ Len(FinalCodes) = 1
       /\ log[Len(log)].var = "JSONRESULT"
       /\ JSONRESULT # ASTJSON_UNDECIDED

\* An operation that follows a path has returned from a call with a path of
\* pieces on a parsed document (jsonadd: with a type tag it knows).
Walked(ops) ==
    /\ pc # "idle"
    /\ call.op \in ops
    /\ ~ast_strlen_zero(call.json)
    /\ call.op = "jsonadd" => add_type_known(call.type)
    /\ BeforeRoot # NULLNODE
    /\ PathPieces # <<>>

\* C11: JSONELEMENT, jsonadd and jsonset on a path with a piece that cannot be
\* followed report NotFound and leave the document as it was; JSONELEMENT
\* returns the empty text.
C11_UnresolvedNotFound ==
    (Walked({"jsonelement", "jsonadd", "jsonset"}) /\ ~Target.found)
    => /\ pc = "returned"
       /\ JSONRESULT = ASTJSON_NOTFOUND
       /\ doc = before
       /\ ~StoredDocument
       /\ call.op = "jsonelement" => buffer = Raw(<<>>)

\* C17: a piece is followed as an index exactly if all of it is a decimal
\* number, as that number, and as a key otherwise: a returned call on a path
\* of one piece reports NotFound exactly if that reading of the piece leads
\* nowhere, and JSONELEMENT returns the value that reading leads to.
C17_SegmentClassification ==
    (Walked({"jsonelement", "jsonadd", "jsonset", "jsondelete"})
       /\ pc = "returned" /\ Len(PathPieces) = 1)
    => /\ JSONRESULT = ASTJSON_NOTFOUND <=> ~Target.found
       /\ (call.op = "jsonelement" /\ Target.found)
             => buffer = element_value(NodeAt(BeforeRoot, Target.loc))

\* C18: the loop of jsondelete_exec on a parsed document and a path that is
\* not empty is entered at most as many times as the path has pieces and the
\* document has nodes, and jsondelete_exec then returns with a result code.
C18_DeleteTerminates ==
    /\ [](pc \in {"deleting", "returned"} /\ frame # NoFrame
            => frame.turns <= TurnCap(call, before))
    /\ (pc = "deleting" ~> (pc = "returned" /\ JSONRESULT # ASTJSON_UNDECIDED))

\* The loop was entered three times on an array of two elements: twice to
\* remove an element, once to find none left.
C18_Witness ==
    /\ pc = "returned"
    /\ call.op = "jsondelete"
    /\ frame # NoFrame
    /\ frame.turns = 3
    /\ BeforeRoot.type = "array"
    /\ Len(BeforeRoot.elems) = 2
    /\ JSONRESULT = ASTJSON_OK

====
